---- MODULE Spec2Model ----
(***************************************************************************)
(* SoundBoard27 update client (updater.py): version comparison, descriptor *)
(* parsing, the update decision and the request lifecycle of UpdateClient, *)
(* together with the host's skip-version storage (soundboard.py).          *)
(*                                                                         *)
(* Strings are sequences of one-character strings, so that split, strip,   *)
(* lower and int are computed character by character as Python does.       *)
(* An optional value is <<>> (None) or <<v>>.                              *)
(***************************************************************************)
EXTENDS Integers, Sequences, FiniteSets, TLC

\* ------------------------------------------------------------------ text

Digits == <<"0", "1", "2", "3", "4", "5", "6", "7", "8", "9">>

Uppers == <<"A", "B", "C", "D", "E", "F", "G", "H", "I", "J", "K", "L", "M",
            "N", "O", "P", "Q", "R", "S", "T", "U", "V", "W", "X", "Y", "Z">>

Lowers == <<"a", "b", "c", "d", "e", "f", "g", "h", "i", "j", "k", "l", "m",
            "n", "o", "p", "q", "r", "s", "t", "u", "v", "w", "x", "y", "z">>

\* The whitespace characters of the modelled alphabet (str.strip, int).
IsSpace(c) == c \in {" ", "\t"}

IsDigit(c) == \E i \in 1..Len(Digits) : Digits[i] = c

DigitVal(c) == (CHOOSE i \in 1..Len(Digits) : Digits[i] = c) - 1

\* str.lower on one character.
LowerChar(c) ==
    IF \E i \in 1..Len(Uppers) : Uppers[i] = c
    THEN Lowers[CHOOSE i \in 1..Len(Uppers) : Uppers[i] = c]
    ELSE c

\* str.lower
Lower(s) == [i \in 1..Len(s) |-> LowerChar(s[i])]

RECURSIVE LStrip(_)
LStrip(s) == IF s # <<>> /\ IsSpace(Head(s)) THEN LStrip(Tail(s)) ELSE s

RECURSIVE RStrip(_)
RStrip(s) ==
    IF s # <<>> /\ IsSpace(s[Len(s)]) THEN RStrip(SubSeq(s, 1, Len(s) - 1)) ELSE s

\* str.strip
Strip(s) == RStrip(LStrip(s))

\* The pieces of s from position i on, piece being the one under way.
RECURSIVE SplitFrom(_, _, _, _)
SplitFrom(s, sep, i, piece) ==
    IF i > Len(s) THEN <<piece>>
    ELSE IF s[i] = sep THEN <<piece>> \o SplitFrom(s, sep, i + 1, <<>>)
    ELSE SplitFrom(s, sep, i + 1, Append(piece, s[i]))

\* str.split(sep) for a one-character separator: always at least one piece.
Split(s, sep) == SplitFrom(s, sep, 1, <<>>)

\* str.splitlines: the pieces between line feeds, without a last empty piece.
SplitLines(s) ==
    LET pieces == Split(s, "\n")
    IN  IF pieces[Len(pieces)] = <<>>
        THEN SubSeq(pieces, 1, Len(pieces) - 1)
        ELSE pieces

RECURSIVE DecimalValue(_)
DecimalValue(ds) ==
    IF ds = <<>> THEN 0
    ELSE 10 * DecimalValue(SubSeq(ds, 1, Len(ds) - 1)) + DigitVal(ds[Len(ds)])

\* int() accepts t: one or more digits after at most one sign.
IsIntLiteral(t) ==
    /\ t # <<>>
    /\ \A i \in 1..Len(t) : IsDigit(t[i]) \/ (i = 1 /\ t[1] \in {"-", "+"})
    /\ IsDigit(t[Len(t)])

\* int(t) for a literal without surrounding whitespace.
IntLiteral(t) ==
    IF t[1] = "-" THEN 0 - DecimalValue(Tail(t))
    ELSE IF t[1] = "+" THEN DecimalValue(Tail(t))
    ELSE DecimalValue(t)

\* try: int(part), except ValueError: 0.  int() ignores surrounding
\* whitespace.
IntOrZero(t) == IF IsIntLiteral(t) THEN IntLiteral(t) ELSE 0

\* ------------------------------------------------------------- versions

RECURSIVE ParseParts(_)
ParseParts(tokens) ==
    IF tokens = <<>> THEN <<>>
    ELSE <<IntOrZero(Strip(Head(tokens)))>> \o ParseParts(Tail(tokens))

_parse_version(version_str) == ParseParts(Split(Strip(version_str), "."))

\* No padding at all.
PadTo_None(t, length) == t

\* ta + (0,) * (length - len(ta))
PadTo(t, length) == t \o [i \in 1..(length - Len(t)) |-> 0]

Max(a, b) == IF a >= b THEN a ELSE b

\* Python's ta < tb on tuples of integers.
RECURSIVE TupleLess(_, _)
TupleLess(ta, tb) ==
    IF ta = <<>> THEN tb # <<>>
    ELSE IF tb = <<>> THEN FALSE
    ELSE IF Head(ta) # Head(tb) THEN Head(ta) < Head(tb)
    ELSE TupleLess(Tail(ta), Tail(tb))

\* Never 0: 1 whenever ta is not less than tb.
TupleOrder_NeverEqual(ta, tb) == IF TupleLess(ta, tb) THEN -1 ELSE 1

\* -1, 1 or 0 as ta < tb, ta > tb or neither.
TupleOrder(ta, tb) ==
    IF TupleLess(ta, tb) THEN -1
    ELSE IF TupleLess(tb, ta) THEN 1
    ELSE 0

Min(a, b) == IF a <= b THEN a ELSE b

\* Both tuples cut to the shorter length instead of padded to the longer.
ComparePadded_CommonPrefix(ta, tb) ==
    TupleOrder(SubSeq(ta, 1, Min(Len(ta), Len(tb))),
               SubSeq(tb, 1, Min(Len(ta), Len(tb))))

ComparePadded(ta, tb) ==
    TupleOrder(PadTo(ta, Max(Len(ta), Len(tb))), PadTo(tb, Max(Len(ta), Len(tb))))

_compare_versions(a, b) == ComparePadded(_parse_version(a), _parse_version(b))

\* ----------------------------------------------------------- descriptor

\* flags = [f.strip().lower() for f in flags_str.split(",") if f.strip()]
RECURSIVE FlagList(_)
FlagList(tokens) ==
    IF tokens = <<>> THEN <<>>
    ELSE IF Strip(Head(tokens)) = <<>> THEN FlagList(Tail(tokens))
    ELSE <<Lower(Strip(Head(tokens)))>> \o FlagList(Tail(tokens))

\* The stripped fields of a line: parts = [p.strip() for p in line.split("|")]
LineParts(raw_line) ==
    LET pieces == Split(Strip(raw_line), "|")
    IN  [i \in 1..Len(pieces) |-> Strip(pieces[i])]

\* The test of a line without the test for a leading "#".
WellFormedLine_CommentsKept(raw_line) ==
    /\ Strip(raw_line) # <<>>
    /\ Len(LineParts(raw_line)) = 4

\* The line is neither blank nor a comment and has exactly four fields.
WellFormedLine(raw_line) ==
    /\ Strip(raw_line) # <<>>
    /\ Strip(raw_line)[1] # "#"
    /\ Len(LineParts(raw_line)) = 4

\* No platform test: every line of four fields is taken.
PlatformMatches_Any(raw_line, os_tag) == TRUE

\* os_name.lower() == os_tag.lower()
PlatformMatches(raw_line, os_tag) ==
    Lower(LineParts(raw_line)[2]) = Lower(os_tag)

EntryOf(raw_line) ==
    [version |-> LineParts(raw_line)[1],
     flags   |-> FlagList(Split(LineParts(raw_line)[3], ",")),
     url     |-> LineParts(raw_line)[4]]

\* The loop body replacing latest_entry on >= 0 instead of > 0.
ParseStep_LastWinsTies(acc, raw_line, os_tag, current_version) ==
    IF ~WellFormedLine(raw_line) THEN acc
    ELSE IF ~PlatformMatches(raw_line, os_tag) THEN acc
    ELSE LET entry == EntryOf(raw_line)
             latest ==
                 IF acc.latest = <<>>
                    \/ _compare_versions(entry.version, acc.latest[1].version) >= 0
                 THEN <<entry>> ELSE acc.latest
             current ==
                 IF _compare_versions(entry.version, current_version) = 0
                 THEN <<entry>> ELSE acc.current
         IN  [latest |-> latest, current |-> current]

\* The loop body keeping the first line of the current version.
ParseStep_FirstCurrentWins(acc, raw_line, os_tag, current_version) ==
    IF ~WellFormedLine(raw_line) THEN acc
    ELSE IF ~PlatformMatches(raw_line, os_tag) THEN acc
    ELSE LET entry == EntryOf(raw_line)
             latest ==
                 IF acc.latest = <<>>
                    \/ _compare_versions(entry.version, acc.latest[1].version) > 0
                 THEN <<entry>> ELSE acc.latest
             current ==
                 IF /\ acc.current = <<>>
                    /\ _compare_versions(entry.version, current_version) = 0
                 THEN <<entry>> ELSE acc.current
         IN  [latest |-> latest, current |-> current]

\* One iteration of the loop over the lines; acc = [latest, current].
ParseStep(acc, raw_line, os_tag, current_version) ==
    IF ~WellFormedLine(raw_line) THEN acc
    ELSE IF ~PlatformMatches(raw_line, os_tag) THEN acc
    ELSE LET entry == EntryOf(raw_line)
             latest ==
                 IF acc.latest = <<>>
                    \/ _compare_versions(entry.version, acc.latest[1].version) > 0
                 THEN <<entry>> ELSE acc.latest
             current ==
                 IF _compare_versions(entry.version, current_version) = 0
                 THEN <<entry>> ELSE acc.current
         IN  [latest |-> latest, current |-> current]

RECURSIVE ParseLines(_, _, _, _)
ParseLines(acc, lines, os_tag, current_version) ==
    IF lines = <<>> THEN acc
    ELSE ParseLines(ParseStep(acc, Head(lines), os_tag, current_version),
                    Tail(lines), os_tag, current_version)

_parse_update_descriptor(text, os_tag, current_version) ==
    ParseLines([latest |-> <<>>, current |-> <<>>],
               SplitLines(text), os_tag, current_version)

\* --------------------------------------------------------------- inputs

\* The most start()/check_now() calls made in one behaviour.
MaxCalls == 2

Linux   == <<"l", "i", "n", "u", "x">>
LinuxMixed == <<"L", "i", "n", "u", "x">>
Windows == <<"w", "i", "n", "d", "o", "w", "s">>
Deprecated == <<"d", "e", "p", "r", "e", "c", "a", "t", "e", "d">>
DeprecatedSpaced == <<" ", "D", "e", "p", "r", "e", "c", "a", "t", "e", "d", " ", ",">>

V_1_0   == <<"1", ".", "0">>
V_1_2   == <<"1", ".", "2">>
V_1_2_0 == <<"1", ".", "2", ".", "0">>
V_1_3   == <<"1", ".", "3">>
V_1_9   == <<"1", ".", "9">>
V_neg1  == <<"-", "1">>

\* A descriptor line "version|platform|flags|url".
Line(version, platform, flags, url) ==
    version \o <<"|">> \o platform \o <<"|">> \o flags \o <<"|">> \o url

RECURSIVE JoinLines(_)
JoinLines(lines) ==
    IF lines = <<>> THEN <<>>
    ELSE IF Len(lines) = 1 THEN Head(lines)
    ELSE Head(lines) \o <<"\n">> \o JoinLines(Tail(lines))

\* Only a comment and another platform's line.
D_other == JoinLines(<<<<"#", " ", "c">>, Line(V_1_9, Windows, <<>>, <<"w">>)>>)
\* 1.2 and a newer 1.3.
D_newer == JoinLines(<<Line(V_1_2, Linux, <<>>, <<"a">>),
                       Line(V_1_3, LinuxMixed, <<>>, <<"b">>)>>)
\* 1.2 deprecated and a newer 1.3.
D_dep_newer == JoinLines(<<Line(V_1_2, Linux, Deprecated, <<"a">>),
                           Line(V_1_3, Linux, <<>>, <<"b">>)>>)
\* 1.2.0 deprecated and the greatest version listed.
D_dep_latest == JoinLines(<<Line(V_1_0, Linux, <<>>, <<"b">>),
                            Line(V_1_2_0, Linux, DeprecatedSpaced, <<>>)>>)
\* Only 1.2.0.
D_same == Line(V_1_2_0, Linux, <<>>, <<"a">>)
\* Only the older 1.0.
D_older == Line(V_1_0, Linux, <<>>, <<"b">>)
\* One line whose version field is empty.
D_blank_version == Line(<<>>, Linux, <<>>, <<"e">>)

\* "-1" deprecated with a URL, and a line with neither version nor URL.
D_blank_latest == JoinLines(<<Line(V_neg1, Linux, Deprecated, <<"u">>),
                              Line(<<>>, Linux, <<>>, <<>>)>>)

Descriptors ==
    {D_other, D_newer, D_dep_newer, D_dep_latest, D_same, D_older, D_blank_version,
     D_blank_latest}

\* get_os_tag() gives "linux", "windows", "macos" or "".
OsTags == {Linux, <<>>}

AppVersions == {V_1_2, V_neg1}

\* The skip version the host loaded from its configuration: None or a
\* non-empty string.
InitialSkipVersions == {<<>>, <<V_1_2>>, <<V_1_3>>}

\* What the transport hands to the finished signal: a network error, or the
\* body decoded as text.
Replies == {[err |-> TRUE, text |-> <<>>]}
           \cup {[err |-> FALSE, text |-> d] : d \in Descriptors}

\* What the user does with a dialog: the button pressed ("none" when the
\* dialog is dismissed without one) and the state of the checkbox.
UserChoices == [clicked : {"download", "releases", "reject", "none"},
                checkbox : BOOLEAN]

\* The mandatory dialog has the three buttons and no checkbox.
MandatoryChoices == {user \in UserChoices : ~user.checkbox}

\* ---------------------------------------------------------------- state

VARIABLES
    _os_tag,                            \* UpdateClient._os_tag
    _app_version,                       \* UpdateClient._app_version
    _ignore_skip_for_this_request,      \* BOOLEAN
    _result_callback_for_this_request,  \* <<>> or <<id of the call whose sink it is>>
    update_skip_version,                \* Soundboard.update_skip_version: <<>> or <<v>>
    outstanding,                        \* ids of the calls whose GET the transport holds
    stalled,                            \* the transport completes no GET any more
    parent_closed,                      \* _parent_widget.close() was called
    calls,                              \* history: the calls made, in order
    sink_log,                           \* history: the sink invocations, in order
    last,                               \* history: what the last reply handler did
    fn_args,                            \* the arguments a module-level function is tried on
    fn_result                           \* <<>> or <<what the function gave for them>>

vars == <<_os_tag, _app_version, _ignore_skip_for_this_request,
          _result_callback_for_this_request, update_skip_version, outstanding,
          stalled, parent_closed, calls, sink_log, last, fn_args, fn_result>>

\* "https://github.com/Retzilience/SoundBoard27/releases/latest", abbreviated.
RELEASES_LATEST_URL == <<"r", "e", "l", "e", "a", "s", "e", "s">>

NoReply ==
    [call |-> 0, err |-> FALSE, text |-> <<>>, ignore_skip |-> FALSE,
     skip_before |-> <<>>, notified |-> <<>>, status |-> "none",
     dialog |-> "none", dialog_version |-> <<>>, download_url |-> <<>>,
     skip_read |-> FALSE, skip_write |-> <<>>,
     close_parent |-> FALSE, sink_raised |-> FALSE]

Init ==
    /\ _os_tag \in OsTags
    /\ _app_version \in AppVersions
    /\ _ignore_skip_for_this_request = FALSE
    /\ _result_callback_for_this_request = <<>>
    /\ update_skip_version \in InitialSkipVersions
    /\ outstanding = {}
    /\ stalled = FALSE
    /\ parent_closed = FALSE
    /\ calls = <<>>
    /\ sink_log = <<>>
    /\ last = NoReply
    /\ fn_args = <<>>
    /\ fn_result = <<>>

\* -------------------------------------------------------------- dialogs

\* The URL handed to QDesktopServices.openUrl after a dialog closes, if any.
OpenedUrl(user, download_url) ==
    IF user.clicked = "download" /\ download_url # <<>> THEN <<download_url>>
    ELSE IF user.clicked = "releases" THEN <<RELEASES_LATEST_URL>>
    ELSE <<>>

\* The optional dialog storing the skip version also on "Do Not Update".
_show_optional_update_dialog_SkipOnReject(latest_entry, user) ==
    LET latest_version == Strip(latest_entry.version)
        download_url   == Strip(latest_entry.url)
    IN  IF latest_version = <<>>
        THEN [dialog |-> "none", dialog_version |-> <<>>, download_url |-> <<>>,
              opened |-> <<>>, skip_write |-> <<>>, close_parent |-> FALSE]
        ELSE [dialog |-> "optional",
              dialog_version |-> latest_version,
              download_url |-> download_url,
              opened |-> OpenedUrl(user, download_url),
              skip_write |-> IF user.checkbox \/ user.clicked = "reject"
                             THEN <<latest_version>> ELSE <<>>,
              close_parent |-> FALSE]

\* With an empty latest version the method returns before building the box.
_show_optional_update_dialog(latest_entry, user) ==
    LET latest_version == Strip(latest_entry.version)
        download_url   == Strip(latest_entry.url)
    IN  IF latest_version = <<>>
        THEN [dialog |-> "none", dialog_version |-> <<>>, download_url |-> <<>>,
              opened |-> <<>>, skip_write |-> <<>>, close_parent |-> FALSE]
        ELSE [dialog |-> "optional",
              dialog_version |-> latest_version,
              download_url |-> download_url,
              opened |-> OpenedUrl(user, download_url),
              skip_write |-> IF user.checkbox THEN <<latest_version>> ELSE <<>>,
              close_parent |-> FALSE]

\* The mandatory dialog closing the host only when no URL is opened.
_show_mandatory_update_dialog_CloseOnQuit(latest_entry, current_entry, user) ==
    LET latest_version ==
            IF Strip(latest_entry.version) # <<>>
            THEN Strip(latest_entry.version) ELSE _app_version
        download_url ==
            IF Strip(latest_entry.url) = <<>> /\ current_entry # <<>>
            THEN Strip(current_entry[1].url) ELSE Strip(latest_entry.url)
    IN  [dialog |-> "mandatory",
         dialog_version |-> latest_version,
         download_url |-> download_url,
         opened |-> OpenedUrl(user, download_url),
         skip_write |-> <<>>,
         close_parent |-> (OpenedUrl(user, download_url) = <<>>)]

_show_mandatory_update_dialog(latest_entry, current_entry, user) ==
    LET latest_version ==
            IF Strip(latest_entry.version) # <<>>
            THEN Strip(latest_entry.version) ELSE _app_version
        download_url ==
            IF Strip(latest_entry.url) = <<>> /\ current_entry # <<>>
            THEN Strip(current_entry[1].url) ELSE Strip(latest_entry.url)
    IN  [dialog |-> "mandatory",
         dialog_version |-> latest_version,
         download_url |-> download_url,
         opened |-> OpenedUrl(user, download_url),
         skip_write |-> <<>>,
         close_parent |-> TRUE]

NoDialog ==
    [dialog |-> "none", dialog_version |-> <<>>, download_url |-> <<>>,
     opened |-> <<>>, skip_write |-> <<>>, close_parent |-> FALSE]

\* ------------------------------------------------------------- decision

\* "deprecated" in current_entry["flags"]
CurrentIsDeprecated(current_entry) ==
    /\ current_entry # <<>>
    /\ \E i \in 1..Len(current_entry[1].flags) : current_entry[1].flags[i] = Deprecated

\* The snooze test without its first comparison (latest <= skip alone).
SnoozeSuppresses_LatestOnly(latest_entry, skip_version) ==
    /\ skip_version # <<>>
    /\ skip_version[1] # <<>>
    /\ _compare_versions(latest_entry.version, skip_version[1]) <= 0

\* The snooze test asking for a skip version at or ahead of the running
\* version instead of at or behind it.
SnoozeSuppresses_SkipAheadOfApp(latest_entry, skip_version) ==
    /\ skip_version # <<>>
    /\ skip_version[1] # <<>>
    /\ _compare_versions(_app_version, skip_version[1]) <= 0
    /\ _compare_versions(latest_entry.version, skip_version[1]) <= 0

\* if skip_version: ... if cmp_app_skip >= 0 and cmp_latest_skip <= 0
SnoozeSuppresses(latest_entry, skip_version) ==
    /\ skip_version # <<>>
    /\ skip_version[1] # <<>>
    /\ _compare_versions(_app_version, skip_version[1]) >= 0
    /\ _compare_versions(latest_entry.version, skip_version[1]) <= 0

\* _parse_update_descriptor is a pure function: its values on the inputs of
\* the model, tabulated once (@@ makes the table an explicit function).
ParsedDescriptor ==
    [text \in Descriptors, os_tag \in OsTags, current_version \in AppVersions |->
        _parse_update_descriptor(text, os_tag, current_version)] @@ <<>>

\* What _handle_update_descriptor decides: the result it gives to
\* _notify_request_result, the dialog it shows before that ("show", with the
\* entries handed to it) and whether it called get_skip_version.
Decision(status, show, skip_read, latest_entry, current_entry) ==
    [status |-> status, show |-> show, skip_read |-> skip_read,
     latest_entry |-> latest_entry, current_entry |-> current_entry]

\* The decision with the already-current test placed before the deprecation
\* test.
_handle_update_descriptor_CurrentFirst(text) ==
    LET parsed == ParsedDescriptor[text, _os_tag, _app_version]
        latest_entry  == parsed.latest
        current_entry == parsed.current
    IN  IF _os_tag = <<>>
        THEN Decision("error", "none", FALSE, <<>>, <<>>)
        ELSE IF latest_entry = <<>>
        THEN Decision("error", "none", FALSE, latest_entry, current_entry)
        ELSE IF _compare_versions(latest_entry[1].version, _app_version) <= 0
        THEN Decision("no_update", "none", FALSE, latest_entry, current_entry)
        ELSE IF CurrentIsDeprecated(current_entry)
        THEN Decision("deprecated", "mandatory", FALSE, latest_entry, current_entry)
        ELSE IF _ignore_skip_for_this_request
        THEN Decision("update_available", "optional", FALSE,
                      latest_entry, current_entry)
        ELSE IF SnoozeSuppresses(latest_entry[1], update_skip_version)
        THEN Decision("no_update", "none", TRUE, latest_entry, current_entry)
        ELSE Decision("update_available", "optional", TRUE,
                      latest_entry, current_entry)

\* The decision with the absence test made on current_entry instead of
\* latest_entry.
_handle_update_descriptor_NoCurrentIsError(text) ==
    LET parsed == ParsedDescriptor[text, _os_tag, _app_version]
        latest_entry  == parsed.latest
        current_entry == parsed.current
    IN  IF _os_tag = <<>>
        THEN Decision("error", "none", FALSE, <<>>, <<>>)
        ELSE IF current_entry = <<>>
        THEN Decision("error", "none", FALSE, latest_entry, current_entry)
        ELSE IF CurrentIsDeprecated(current_entry)
        THEN Decision("deprecated", "mandatory", FALSE, latest_entry, current_entry)
        ELSE IF _compare_versions(latest_entry[1].version, _app_version) <= 0
        THEN Decision("no_update", "none", FALSE, latest_entry, current_entry)
        ELSE IF _ignore_skip_for_this_request
        THEN Decision("update_available", "optional", FALSE,
                      latest_entry, current_entry)
        ELSE IF SnoozeSuppresses(latest_entry[1], update_skip_version)
        THEN Decision("no_update", "none", TRUE, latest_entry, current_entry)
        ELSE Decision("update_available", "optional", TRUE,
                      latest_entry, current_entry)

\* The decision with the already-current test made with < instead of <=.
_handle_update_descriptor_StrictlyOlder(text) ==
    LET parsed == ParsedDescriptor[text, _os_tag, _app_version]
        latest_entry  == parsed.latest
        current_entry == parsed.current
    IN  IF _os_tag = <<>>
        THEN Decision("error", "none", FALSE, <<>>, <<>>)
        ELSE IF latest_entry = <<>>
        THEN Decision("error", "none", FALSE, latest_entry, current_entry)
        ELSE IF CurrentIsDeprecated(current_entry)
        THEN Decision("deprecated", "mandatory", FALSE, latest_entry, current_entry)
        ELSE IF _compare_versions(latest_entry[1].version, _app_version) < 0
        THEN Decision("no_update", "none", FALSE, latest_entry, current_entry)
        ELSE IF _ignore_skip_for_this_request
        THEN Decision("update_available", "optional", FALSE,
                      latest_entry, current_entry)
        ELSE IF SnoozeSuppresses(latest_entry[1], update_skip_version)
        THEN Decision("no_update", "none", TRUE, latest_entry, current_entry)
        ELSE Decision("update_available", "optional", TRUE,
                      latest_entry, current_entry)

_handle_update_descriptor(text) ==
    LET parsed == ParsedDescriptor[text, _os_tag, _app_version]
        latest_entry  == parsed.latest
        current_entry == parsed.current
    IN  IF _os_tag = <<>>
        THEN Decision("error", "none", FALSE, <<>>, <<>>)
        ELSE IF latest_entry = <<>>
        THEN Decision("error", "none", FALSE, latest_entry, current_entry)
        ELSE IF CurrentIsDeprecated(current_entry)
        THEN Decision("deprecated", "mandatory", FALSE, latest_entry, current_entry)
        ELSE IF _compare_versions(latest_entry[1].version, _app_version) <= 0
        THEN Decision("no_update", "none", FALSE, latest_entry, current_entry)
        ELSE IF _ignore_skip_for_this_request
        THEN Decision("update_available", "optional", FALSE,
                      latest_entry, current_entry)
        ELSE IF SnoozeSuppresses(latest_entry[1], update_skip_version)
        THEN Decision("no_update", "none", TRUE, latest_entry, current_entry)
        ELSE Decision("update_available", "optional", TRUE,
                      latest_entry, current_entry)

\* The dialog method the handler calls for its decision, with what the user
\* does in it.
ShowDialog(decision, user) ==
    IF decision.show = "mandatory"
    THEN _show_mandatory_update_dialog(decision.latest_entry[1],
                                       decision.current_entry, user)
    ELSE IF decision.show = "optional"
    THEN _show_optional_update_dialog(decision.latest_entry[1], user)
    ELSE NoDialog

\* -------------------------------------------------------------- actions

\* cb = self._result_callback_for_this_request; the field is cleared, and cb,
\* when there is one, is called with the result (its exceptions are caught).
\* _notify_request_result with the pending sink kept after it was invoked.
_notify_request_result_KeepsCallback(result) ==
    /\ _result_callback_for_this_request' = _result_callback_for_this_request
    /\ sink_log' =
           IF _result_callback_for_this_request = <<>> THEN sink_log
           ELSE Append(sink_log, [call |-> _result_callback_for_this_request[1],
                                  status |-> result, sync |-> FALSE])

\* try: cb(result) / except Exception: the sink returns or raises, and the
\* exception is caught where the sink was called (TRUE: it raised).
SinkOutcomes ==
    IF _result_callback_for_this_request = <<>> THEN {FALSE} ELSE BOOLEAN

_notify_request_result(result) ==
    /\ _result_callback_for_this_request' = <<>>
    /\ sink_log' =
           IF _result_callback_for_this_request = <<>> THEN sink_log
           ELSE Append(sink_log, [call |-> _result_callback_for_this_request[1],
                                  status |-> result, sync |-> FALSE])

\* The entry point storing the flag and the sink before its test of the
\* platform tag.
_request_update_StoresFirst(ignore_skip, has_callback) ==
    LET id == Len(calls) + 1
    IN  /\ Len(calls) < MaxCalls
        /\ _ignore_skip_for_this_request' = ignore_skip
        /\ _result_callback_for_this_request' =
               IF has_callback THEN <<id>> ELSE <<>>
        /\ sink_log' =
               IF _os_tag = <<>> /\ has_callback
               THEN Append(sink_log, [call |-> id, status |-> "error", sync |-> TRUE])
               ELSE sink_log
        /\ outstanding' = IF _os_tag = <<>> THEN outstanding ELSE outstanding \cup {id}
        /\ calls' = Append(calls, [ignore_skip |-> ignore_skip,
                                   has_callback |-> has_callback,
                                   busy |-> outstanding # {},
                                   dispatched |-> _os_tag # <<>>])
        /\ UNCHANGED <<_os_tag, _app_version, update_skip_version, stalled,
                       parent_closed, last, fn_args, fn_result>>

\* The one entry point of start() and check_now().  The call is number
\* Len(calls) + 1; a sink it supplies is known by that number.
_request_update(ignore_skip, has_callback) ==
    LET id == Len(calls) + 1
    IN  /\ Len(calls) < MaxCalls
        /\ IF _os_tag = <<>>
           THEN /\ sink_log' =
                       IF has_callback
                       THEN Append(sink_log,
                                   [call |-> id, status |-> "error", sync |-> TRUE])
                       ELSE sink_log
                /\ calls' = Append(calls, [ignore_skip |-> ignore_skip,
                                           has_callback |-> has_callback,
                                           busy |-> outstanding # {},
                                           dispatched |-> FALSE])
                /\ UNCHANGED <<_ignore_skip_for_this_request,
                               _result_callback_for_this_request, outstanding>>
           ELSE /\ _ignore_skip_for_this_request' = ignore_skip
                /\ _result_callback_for_this_request' =
                       IF has_callback THEN <<id>> ELSE <<>>
                /\ outstanding' = outstanding \cup {id}
                /\ calls' = Append(calls, [ignore_skip |-> ignore_skip,
                                           has_callback |-> has_callback,
                                           busy |-> outstanding # {},
                                           dispatched |-> TRUE])
                /\ UNCHANGED sink_log
        /\ UNCHANGED <<_os_tag, _app_version, update_skip_version, stalled,
                       parent_closed, last, fn_args, fn_result>>

start == _request_update(FALSE, FALSE)

check_now == \E ignore_skip \in BOOLEAN, has_callback \in BOOLEAN :
                 _request_update(ignore_skip, has_callback)

\* The handler without its test of reply.error(): the decision is taken on a
\* body although the transport reported an error.
ReplyDecision_BodyDespiteError(reply) ==
    _handle_update_descriptor(IF reply.err THEN D_newer ELSE reply.text)

\* What the handler of the finished signal decides for a reply: "error" for
\* a network error, else the decision taken on the decoded body.
ReplyDecision(reply) ==
    IF reply.err
    THEN Decision("error", "none", FALSE, <<>>, <<>>)
    ELSE _handle_update_descriptor(reply.text)

\* The finished signal of the GET of call c runs the handler to its end:
\* the decision, its dialog (with the user's part in it), the notification.
HandleReply(c, reply, decision, dialog) ==
    /\ outstanding' = outstanding \ {c}
    /\ _notify_request_result(decision.status)
    /\ update_skip_version' =
           IF dialog.skip_write # <<>> THEN dialog.skip_write ELSE update_skip_version
    /\ parent_closed' = (parent_closed \/ dialog.close_parent)
    /\ \E sink_raised \in SinkOutcomes :
       last' = [call |-> c, err |-> reply.err, text |-> reply.text,
                ignore_skip |-> _ignore_skip_for_this_request,
                skip_before |-> update_skip_version,
                notified |-> _result_callback_for_this_request,
                status |-> decision.status,
                skip_read |-> decision.skip_read,
                dialog |-> dialog.dialog,
                dialog_version |-> dialog.dialog_version,
                download_url |-> dialog.download_url,
                skip_write |-> dialog.skip_write,
                close_parent |-> dialog.close_parent,
                sink_raised |-> sink_raised]
    /\ UNCHANGED <<_os_tag, _app_version, _ignore_skip_for_this_request,
                   stalled, calls, fn_args, fn_result>>

\* Nobody acts on a dialog that is not shown.
NoUser == [clicked |-> "none", checkbox |-> FALSE]

_on_update_reply ==
    \E c \in IF stalled THEN {} ELSE outstanding, reply \in Replies :
        \E decision \in {ReplyDecision(reply)} :
            \E user \in IF decision.show = "none" THEN {NoUser}
                         ELSE IF decision.show = "mandatory" THEN MandatoryChoices
                         ELSE UserChoices :
                HandleReply(c, reply, decision, ShowDialog(decision, user))

\* From now on the transport completes no GET (nothing in the client bounds
\* the time a GET may take).
TransportStalls ==
    /\ outstanding # {}
    /\ ~stalled
    /\ stalled' = TRUE
    /\ UNCHANGED <<_os_tag, _app_version, _ignore_skip_for_this_request,
                   _result_callback_for_this_request, update_skip_version,
                   outstanding, parent_closed, calls, sink_log, last,
                   fn_args, fn_result>>

Next == start \/ check_now \/ _on_update_reply \/ TransportStalls

Spec == Init /\ [][Next]_vars

\* The event loop delivers the finished signal of every GET the transport
\* completes.
FairSpec == Spec /\ WF_vars(_on_update_reply)

\* -------------------------------------------- failing presentation

\* The handler decides on a dialog and the dialog raises (QMessageBox or its
\* exec()).  Neither dialog method nor _handle_update_descriptor catches the
\* exception: it leaves _on_update_reply through its finally clause, so what
\* follows the dialog call (set_skip_version, close(), the notification) is
\* not run.
_on_update_reply_PresentationFails ==
    \E c \in IF stalled THEN {} ELSE outstanding, reply \in Replies :
        \E decision \in {ReplyDecision(reply)} :
            /\ decision.show # "none"
            /\ ShowDialog(decision, NoUser).dialog # "none"
            /\ outstanding' = outstanding \ {c}
            /\ last' = [call |-> c, err |-> reply.err, text |-> reply.text,
                        ignore_skip |-> _ignore_skip_for_this_request,
                        skip_before |-> update_skip_version,
                        notified |-> <<>>,
                        status |-> "none",
                        skip_read |-> decision.skip_read,
                        dialog |-> "failed",
                        dialog_version |-> <<>>,
                        download_url |-> <<>>,
                        skip_write |-> <<>>,
                        close_parent |-> FALSE,
                        sink_raised |-> FALSE]
            /\ UNCHANGED <<_os_tag, _app_version, _ignore_skip_for_this_request,
                           _result_callback_for_this_request, update_skip_version,
                           stalled, parent_closed, calls, sink_log,
                           fn_args, fn_result>>

FaultNext == Next \/ _on_update_reply_PresentationFails

FaultSpec == Init /\ [][FaultNext]_vars

\* ------------------------------------------ the module-level functions

\* The longest version string made from VersionAlphabet.
MaxVersionLen == 2

\* The most ".0" components appended to a version string.
MaxPad == 2

VersionAlphabet == {"0", "1", "."}

\* The strings over alphabet of length at most n.
RECURSIVE StringsUpTo(_, _)
StringsUpTo(alphabet, n) ==
    IF n = 0 THEN {<<>>}
    ELSE LET shorter == StringsUpTo(alphabet, n - 1)
         IN  shorter \cup {Append(str, ch) : str \in shorter, ch \in alphabet}

V_1_10  == <<"1", ".", "1", "0">>
V_abc   == <<"a", "b", "c">>
V_1_neg1 == <<"1", ".", "-", "1">>
V_spaced == <<" ", "1", ".", "2", " ">>
V_plus1 == <<"+", "1">>
V_1_a   == <<"1", ".", "a">>
V_1_0_0 == <<"1", ".", "0", ".", "0">>
V_0_1   == <<"0", ".", "1">>

\* Version strings with several digits, a sign, letters and whitespace.
NamedVersions ==
    {V_1_2, V_1_2_0, V_1_3, V_1_9, V_1_10, V_neg1, V_abc, V_1_neg1, V_spaced,
     V_plus1, V_1_a, V_1_0, V_1_0_0, V_0_1, <<"9">>, <<"-">>}

VersionStrings == StringsUpTo(VersionAlphabet, MaxVersionLen) \cup NamedVersions

\* No client call is made while a module-level function is tried.
Idle ==
    /\ _os_tag = Linux
    /\ _app_version = V_1_2
    /\ _ignore_skip_for_this_request = FALSE
    /\ _result_callback_for_this_request = <<>>
    /\ update_skip_version = <<>>
    /\ outstanding = {}
    /\ stalled = FALSE
    /\ parent_closed = FALSE
    /\ calls = <<>>
    /\ sink_log = <<>>
    /\ last = NoReply

IdleVars == <<_os_tag, _app_version, _ignore_skip_for_this_request,
              _result_callback_for_this_request, update_skip_version,
              outstanding, stalled, parent_closed, calls, sink_log, last>>

\* v followed by k components ".0".
RECURSIVE PaddedBy(_, _)
PaddedBy(v, k) == IF k = 0 THEN v ELSE PaddedBy(v, k - 1) \o <<".", "0">>

RECURSIVE JoinDots(_)
JoinDots(tokens) ==
    IF Len(tokens) = 1 THEN Head(tokens)
    ELSE Head(tokens) \o <<".">> \o JoinDots(Tail(tokens))

\* v with every component int() rejects written as "0".
ZeroNonNumeric(v) ==
    LET tokens == Split(Strip(v), ".")
    IN  JoinDots([i \in 1..Len(tokens) |->
                     IF IsIntLiteral(Strip(tokens[i])) THEN tokens[i] ELSE <<"0">>])

VersionInit ==
    /\ Idle
    /\ fn_args \in [a : VersionStrings, b : VersionStrings, c : VersionStrings]
    /\ fn_result = <<>>

\* _compare_versions is called on the pairs of a, b and c, and on a and b
\* with ".0" components appended and non-numeric components zeroed;
\* _parse_version is called on a.
CompareVersions ==
    /\ fn_result = <<>>
    /\ fn_result' =
           <<[ab |-> _compare_versions(fn_args.a, fn_args.b),
              ba |-> _compare_versions(fn_args.b, fn_args.a),
              bc |-> _compare_versions(fn_args.b, fn_args.c),
              ac |-> _compare_versions(fn_args.a, fn_args.c),
              a_padded |-> [k \in 1..MaxPad |->
                               _compare_versions(PaddedBy(fn_args.a, k), fn_args.b)],
              b_padded |-> [k \in 1..MaxPad |->
                               _compare_versions(fn_args.a, PaddedBy(fn_args.b, k))],
              a_zeroed |-> _compare_versions(ZeroNonNumeric(fn_args.a), fn_args.b),
              a_parsed |-> _parse_version(fn_args.a)]>>
    /\ UNCHANGED <<IdleVars, fn_args>>

VersionNext == CompareVersions

VersionSpec == VersionInit /\ [][VersionNext]_vars

\* The most lines of a descriptor text.
MaxLines == 3

L_blank   == <<" ", "\t">>
\* A comment that would otherwise be a line for the platform.
L_comment == <<" ", "#">> \o Line(V_1_9, Linux, Deprecated, <<"z">>)
L_three   == V_1_9 \o <<"|">> \o Linux \o <<"|">> \o <<"z">>
L_five    == Line(V_1_9, Linux, Deprecated, <<"z">>) \o <<"|">>
L_1_2     == Line(V_1_2, Linux, <<>>, <<"a">>)
\* Equal to 1.2 as a version, with another URL.
L_1_2_0   == Line(V_1_2_0, LinuxMixed, Deprecated, <<"b">>)
L_1_3     == <<" ">> \o Line(V_1_3, Linux, <<>>, <<"c">>)
L_1_0     == Line(V_1_0, Linux, <<>>, <<"d">>)
L_win_1_2 == Line(V_1_2, Windows, Deprecated, <<"w">>)
L_win_1_9 == Line(V_1_9, Windows, <<>>, <<"x">>)

LinePool ==
    {L_blank, L_comment, L_three, L_five, L_1_2, L_1_2_0, L_1_3, L_1_0,
     L_win_1_2, L_win_1_9}

\* The sequences of at most n lines of the pool.
RECURSIVE LinesUpTo(_)
LinesUpTo(n) ==
    IF n = 0 THEN {<<>>}
    ELSE LET shorter == LinesUpTo(n - 1)
         IN  shorter \cup {Append(ls, l) : ls \in shorter, l \in LinePool}

ParserOsTags == {Linux, Windows}

ParserVersions == {V_1_2, V_1_3}

\* The number of "|" characters of a string.
RECURSIVE Bars(_)
Bars(str) ==
    IF str = <<>> THEN 0
    ELSE (IF Head(str) = "|" THEN 1 ELSE 0) + Bars(Tail(str))

\* The line, trimmed, is empty, starts with "#" or has not exactly 4 fields.
Ignorable(raw_line) ==
    \/ Strip(raw_line) = <<>>
    \/ Strip(raw_line)[1] = "#"
    \/ Bars(raw_line) # 3

\* The platform field of a line of 4 fields.
PlatformField(raw_line) == Strip(Split(raw_line, "|")[2])

\* A line of 4 fields whose platform is os_tag, ignoring case.
Relevant(raw_line, os_tag) ==
    /\ ~Ignorable(raw_line)
    /\ Lower(PlatformField(raw_line)) = Lower(os_tag)

\* A line of 4 fields for another platform.
OtherPlatform(raw_line, os_tag) ==
    /\ ~Ignorable(raw_line)
    /\ Lower(PlatformField(raw_line)) # Lower(os_tag)

WithoutIgnorable(lines) ==
    LET Keep(l) == ~Ignorable(l) IN SelectSeq(lines, Keep)

WithoutOtherPlatforms(lines, os_tag) ==
    LET Keep(l) == ~OtherPlatform(l, os_tag) IN SelectSeq(lines, Keep)

\* The lines for other platforms moved in front of the rest.
OtherPlatformsFirst(lines, os_tag) ==
    LET Other(l) == OtherPlatform(l, os_tag)
    IN  SelectSeq(lines, Other) \o WithoutOtherPlatforms(lines, os_tag)

\* The entries of the lines for the platform, in line order.
RelevantEntries(lines, os_tag) ==
    LET Keep(l) == Relevant(l, os_tag)
        kept == SelectSeq(lines, Keep)
    IN  [i \in 1..Len(kept) |-> EntryOf(kept[i])]

ParserInit ==
    /\ Idle
    /\ fn_args \in [lines : LinesUpTo(MaxLines), os_tag : ParserOsTags,
                     current_version : ParserVersions]
    /\ fn_result = <<>>

\* _parse_update_descriptor is called on the text of the lines, and on that
\* text without its ignorable lines, without its lines for other platforms,
\* and with those lines moved to the front.
ParseDescriptor ==
    /\ fn_result = <<>>
    /\ fn_result' =
           <<[parsed |->
                  _parse_update_descriptor(JoinLines(fn_args.lines),
                                           fn_args.os_tag, fn_args.current_version),
              cleaned |->
                  _parse_update_descriptor(JoinLines(WithoutIgnorable(fn_args.lines)),
                                           fn_args.os_tag, fn_args.current_version),
              filtered |->
                  _parse_update_descriptor(
                      JoinLines(WithoutOtherPlatforms(fn_args.lines, fn_args.os_tag)),
                      fn_args.os_tag, fn_args.current_version),
              reordered |->
                  _parse_update_descriptor(
                      JoinLines(OtherPlatformsFirst(fn_args.lines, fn_args.os_tag)),
                      fn_args.os_tag, fn_args.current_version)]>>
    /\ UNCHANGED <<IdleVars, fn_args>>

ParserNext == ParseDescriptor

ParserSpec == ParserInit /\ [][ParserNext]_vars

\* The most comma-separated tokens of a flags field.
MaxFlags == 3

DeprecatedUpper == <<"D", "E", "P", "R", "E", "C", "A", "T", "E", "D">>
DeprecatedPadded == <<" ", "D", "e", "p", "r", "e", "c", "a", "t", "e", "d", " ">>

FlagTokens == {<<>>, Deprecated, DeprecatedUpper, DeprecatedPadded, <<"b">>}

\* The sequences of at most n tokens.
RECURSIVE TokensUpTo(_)
TokensUpTo(n) ==
    IF n = 0 THEN {<<>>}
    ELSE LET shorter == TokensUpTo(n - 1)
         IN  shorter \cup {Append(ts, t) : ts \in shorter, t \in FlagTokens}

RECURSIVE JoinCommas(_)
JoinCommas(tokens) ==
    IF tokens = <<>> THEN <<>>
    ELSE IF Len(tokens) = 1 THEN Head(tokens)
    ELSE Head(tokens) \o <<",">> \o JoinCommas(Tail(tokens))

FlagFields == {JoinCommas(ts) : ts \in TokensUpTo(MaxFlags)}

FlagsInit ==
    /\ Idle
    /\ fn_args \in [flags_str : FlagFields]
    /\ fn_result = <<>>

\* _parse_update_descriptor is called on one line of the running version
\* with the flags field tried, and the handler's test for "deprecated" is
\* made on the current_entry it gives.
ParseFlags ==
    /\ fn_result = <<>>
    /\ \E parsed \in {_parse_update_descriptor(
                          Line(_app_version, _os_tag, fn_args.flags_str, <<"u">>),
                          _os_tag, _app_version)} :
           fn_result' = <<[flags |-> parsed.current[1].flags,
                           current_is_deprecated |->
                               CurrentIsDeprecated(parsed.current)]>>
    /\ UNCHANGED <<IdleVars, fn_args>>

FlagsNext == ParseFlags

FlagsSpec == FlagsInit /\ [][FlagsNext]_vars

\* ----------------------------------------------------- request lifecycle

\* How often the sink supplied by call i has been invoked.
SinkCount(i) == Cardinality({k \in DOMAIN sink_log : sink_log[k].call = i})

\* C1: a call made while an accepted request is dispatched and unresolved is
\* rejected: it issues no fetch, and its sink (if any) receives "error"
\* before the call returns.
C1_SingleFlightRejection ==
    \A i \in DOMAIN calls :
        calls[i].busy =>
            /\ ~calls[i].dispatched
            /\ calls[i].has_callback =>
                   \E k \in DOMAIN sink_log :
                       sink_log[k] = [call |-> i, status |-> "error", sync |-> TRUE]

\* C2: a call made while a request is unresolved leaves the recorded
\* ignore_skip flag and the pending result sink of that request unchanged.
C2_SecondCallKeepsFirstRequest ==
    [][(outstanding # {} /\ Len(calls') > Len(calls)) =>
           /\ _ignore_skip_for_this_request' = _ignore_skip_for_this_request
           /\ _result_callback_for_this_request' = _result_callback_for_this_request
      ]_vars

\* C3: the sink of an accepted request is never invoked twice, and once the
\* reply of the request has been delivered it has been invoked exactly once.
C3_SinkExactlyOnce ==
    \A i \in DOMAIN calls :
        (calls[i].dispatched /\ calls[i].has_callback) =>
            /\ SinkCount(i) <= 1
            /\ i \notin outstanding => SinkCount(i) = 1

\* C4: every accepted request eventually resolves, whether or not the
\* transport completes its fetch.
C4_EveryRequestResolves ==
    \A i \in 1..MaxCalls : (i \in outstanding) ~> (i \notin outstanding)

\* C5: at most one fetch is outstanding at the transport.
C5_AtMostOneFetch == Cardinality(outstanding) <= 1

\* ------------------------------------------------------------- decision

\* The last handler run was given a successfully fetched descriptor.
Fetched == last.call # 0 /\ ~last.err

\* What the parser gives for that descriptor.
LastParsed == ParsedDescriptor[last.text, _os_tag, _app_version]

LastLatest == LastParsed.latest[1]

\* The sink the handler notified, if any, was given the handler's result,
\* asynchronously.
LastSinkGotStatus ==
    last.notified # <<>> =>
        /\ sink_log # <<>>
        /\ sink_log[Len(sink_log)] =
               [call |-> last.notified[1], status |-> last.status, sync |-> FALSE]

\* Some line of the text is well formed and names the platform: computed
\* line by line, apart from the parser's loop.
RelevantLinePresent ==
    [text \in Descriptors, os_tag \in OsTags |->
        \E i \in DOMAIN SplitLines(text) :
            /\ WellFormedLine(SplitLines(text)[i])
            /\ PlatformMatches(SplitLines(text)[i], os_tag)] @@ <<>>

\* C6: whenever the fetched descriptor yields a current_entry flagged
\* "deprecated", the handler's result is "deprecated" and the mandatory dialog
\* is shown, whatever the latest version, the skip version and ignore_skip;
\* the skip version is not consulted on the way.
C6_MandatoryPrecedence ==
    (Fetched /\ CurrentIsDeprecated(LastParsed.current)) =>
        /\ last.status = "deprecated"
        /\ last.dialog = "mandatory"
        /\ ~last.skip_read
        /\ last.skip_write = <<>>
        /\ LastSinkGotStatus

\* A deprecated current version with a newer latest version, a stored skip
\* version and a sink: resolved "deprecated".
C6_Witness ==
    /\ Fetched
    /\ CurrentIsDeprecated(LastParsed.current)
    /\ _compare_versions(LastLatest.version, _app_version) > 0
    /\ last.skip_before # <<>>
    /\ last.notified # <<>>
    /\ last.status = "deprecated"

\* C7: after an "update_available" dialog for version V in which the user
\* ticked the checkbox (set_skip_version(V)), the next check made with
\* ignore_skip false for the same, non-deprecated application version against
\* a descriptor whose latest version is still V resolves "no_update" and
\* shows no dialog.  The later check is one requested after the dialog was
\* answered, with no other request in flight.
C7_SnoozeRoundTrip ==
    [][( /\ last.status = "update_available"
         /\ last.skip_write # <<>>
         /\ update_skip_version = last.skip_write
         /\ outstanding # {}
         /\ outstanding' = {}
         /\ \A c \in outstanding :
                c > last.call /\ ~calls[c].busy /\ ~calls[c].ignore_skip
         /\ ~last'.err
         /\ ParsedDescriptor[last'.text, _os_tag, _app_version].latest # <<>>
         /\ Strip(ParsedDescriptor[last'.text, _os_tag, _app_version]
                      .latest[1].version) = last.skip_write[1]
         /\ ~CurrentIsDeprecated(
                ParsedDescriptor[last'.text, _os_tag, _app_version].current) )
        => (last'.status = "no_update" /\ last'.dialog = "none")
      ]_vars

\* The two comparisons of the snooze rule, on the handler's inputs.
SnoozeConditions ==
    /\ last.skip_before # <<>>
    /\ last.skip_before[1] # <<>>
    /\ _compare_versions(_app_version, last.skip_before[1]) >= 0
    /\ _compare_versions(LastLatest.version, last.skip_before[1]) <= 0

C9_IgnoreSkipOverridesSnooze ==
    (Fetched /\ calls[last.call].ignore_skip) =>
        /\ ~last.skip_read
        /\ ( /\ LastParsed.latest # <<>>
             /\ ~CurrentIsDeprecated(LastParsed.current)
             /\ _compare_versions(LastLatest.version, _app_version) > 0 )
           => (last.status = "update_available" /\ last.dialog = "optional")

\* C10: on a fetched descriptor the handler's result is "error" exactly when
\* no well-formed line names the running platform; then no dialog is shown
\* and the skip version is neither read nor written.
C10_ErrorIffNoPlatformLine ==
    Fetched =>
        /\ last.status = "error" <=> ~RelevantLinePresent[last.text, _os_tag]
        /\ last.status = "error" =>
               /\ last.dialog = "none"
               /\ ~last.skip_read
               /\ last.skip_write = <<>>
               /\ update_skip_version = last.skip_before
               /\ LastSinkGotStatus

\* A descriptor with only a comment and another platform's line, fetched for
\* a request with a sink and a stored skip version: resolved "error".
C10_Witness ==
    /\ Fetched
    /\ last.text = D_other
    /\ last.skip_before # <<>>
    /\ last.notified # <<>>
    /\ last.status = "error"
\* C11: when latest_entry is present, current_entry is absent or not
\* deprecated and compare(latest.version, current_version) <= 0, the result is
\* "no_update" and no dialog is shown, whatever the skip version and
\* ignore_skip.
C11_NoUpdateRule ==
    ( /\ Fetched
      /\ LastParsed.latest # <<>>
      /\ ~CurrentIsDeprecated(LastParsed.current)
      /\ _compare_versions(LastLatest.version, _app_version) <= 0 )
    => /\ last.status = "no_update"
       /\ last.dialog = "none"
       /\ last.skip_write = <<>>
       /\ ~last.close_parent
       /\ LastSinkGotStatus

\* Latest 1.2.0 equal to the current 1.2, a stored skip version, ignore_skip
\* set and a sink: resolved "no_update".
C11_Witness ==
    /\ Fetched
    /\ LastParsed.latest # <<>>
    /\ ~CurrentIsDeprecated(LastParsed.current)
    /\ _compare_versions(LastLatest.version, _app_version) = 0
    /\ last.ignore_skip
    /\ last.skip_before # <<>>
    /\ last.notified # <<>>
    /\ last.status = "no_update"

\* C12: a reply that carries a network error is resolved "error": no dialog
\* is shown, the skip version is neither read nor written, the host is not
\* closed, and handling it issues no fetch and makes no call (no retry).
C12_NetworkErrorResolvesError ==
    [][( /\ last' # last
         /\ last'.err )
        => /\ last'.status = "error"
           /\ last'.dialog = "none"
           /\ ~last'.skip_read
           /\ last'.skip_write = <<>>
           /\ update_skip_version' = update_skip_version
           /\ parent_closed' = parent_closed
           /\ outstanding' = outstanding \ {last'.call}
           /\ calls' = calls
           /\ last'.notified # <<>> =>
                  sink_log' = Append(sink_log, [call |-> last'.notified[1],
                                                status |-> "error", sync |-> FALSE])
      ]_vars

\* A network error handled for a request with a sink and a stored skip
\* version: the sink received "error".
C12_Witness ==
    /\ last.call # 0
    /\ last.err
    /\ last.skip_before # <<>>
    /\ last.notified # <<>>
    /\ last.status = "error"
    /\ sink_log # <<>>
    /\ sink_log[Len(sink_log)].status = "error"

\* What _compare_versions gave for the arguments tried.
Compared == fn_result[1]

\* C13: for all version strings a and b, _compare_versions(a, b) is -1, 0
\* or 1, and _compare_versions(a, b) = -_compare_versions(b, a).
C13_CompareAntisymmetric ==
    fn_result # <<>> =>
        /\ Compared.ab \in {-1, 0, 1}
        /\ Compared.ba \in {-1, 0, 1}
        /\ Compared.ab = 0 - Compared.ba

\* Two versions of different lengths, the first a letter string: -1 one way
\* and 1 the other.
C13_Witness ==
    /\ fn_result # <<>>
    /\ fn_args.a = V_abc
    /\ fn_args.b = V_1_2_0
    /\ Compared.ab = -1
    /\ Compared.ba = 1

\* C14: for all version strings a, b and c, compare(a, b) <= 0 and
\* compare(b, c) <= 0 imply compare(a, c) <= 0, and compare(a, b) = 0 and
\* compare(b, c) = 0 imply compare(a, c) = 0, also when the three have
\* different numbers of components.
C14_CompareTransitive ==
    fn_result # <<>> =>
        /\ (Compared.ab <= 0 /\ Compared.bc <= 0) => Compared.ac <= 0
        /\ (Compared.ab = 0 /\ Compared.bc = 0) => Compared.ac = 0

\* "1.0.0" = "1" < "1.2": three lengths, an equality and a strict step.
C14_Witness ==
    /\ fn_result # <<>>
    /\ fn_args.a = V_1_0_0
    /\ fn_args.b = <<"1">>
    /\ fn_args.c = V_1_2
    /\ Compared.ab = 0
    /\ Compared.bc = -1
    /\ Compared.ac = -1

\* C15: appending ".0" components to either argument does not change the
\* result of _compare_versions (compare("1.2", "1.2.0") = 0); components
\* compare as numbers (compare("1.10", "1.9") = 1); a component that is not a
\* number, or is empty, counts as 0 (compare("abc", "0") = 0,
\* compare("", "0") = 0).
C15_PaddingEquivalence ==
    fn_result # <<>> =>
        /\ \A k \in 1..MaxPad : /\ Compared.a_padded[k] = Compared.ab
                                 /\ Compared.b_padded[k] = Compared.ab
        /\ Compared.a_zeroed = Compared.ab
        /\ (fn_args.a = V_1_2 /\ fn_args.b = V_1_2_0) => Compared.ab = 0
        /\ (fn_args.a = V_1_10 /\ fn_args.b = V_1_9) => Compared.ab = 1
        /\ (fn_args.a = V_abc /\ fn_args.b = <<"0">>) => Compared.ab = 0
        /\ (fn_args.a = <<>> /\ fn_args.b = <<"0">>) => Compared.ab = 0

\* "1.10" against "1.9": 1, with and without ".0" components appended.
C15_Witness ==
    /\ fn_result # <<>>
    /\ fn_args.a = V_1_10
    /\ fn_args.b = V_1_9
    /\ Compared.ab = 1
    /\ Compared.a_padded[MaxPad] = 1
    /\ Compared.b_padded[MaxPad] = 1

\* What _parse_update_descriptor gave for the arguments tried.
Parsed == fn_result[1]

\* C16: latest_entry is the entry of a line for the platform whose version
\* is >= the version of every such line, and the first in line order among
\* those that compare equal to it; it is absent only when there is no such
\* line.
C16_LatestFirstMaximum ==
    fn_result # <<>> =>
        LET entries == RelevantEntries(fn_args.lines, fn_args.os_tag)
        IN  /\ (Parsed.parsed.latest = <<>>) <=> (entries = <<>>)
            /\ entries # <<>> =>
                   \E i \in DOMAIN entries :
                       /\ Parsed.parsed.latest[1] = entries[i]
                       /\ \A j \in DOMAIN entries :
                              _compare_versions(entries[i].version,
                                                entries[j].version) >= 0
                       /\ \A j \in 1..(i - 1) :
                              _compare_versions(entries[j].version,
                                                entries[i].version) # 0

\* 1.0, then 1.2 and 1.2.0 which compare equal: latest_entry is the 1.2 line.
C16_Witness ==
    /\ fn_result # <<>>
    /\ fn_args.lines = <<L_1_0, L_1_2, L_1_2_0>>
    /\ fn_args.os_tag = Linux
    /\ Parsed.parsed.latest = <<EntryOf(L_1_2)>>

\* C17: a line that, trimmed, is empty, starts with "#" or has not exactly 4
\* fields gives no entry: the result for a text is the result for the text
\* without such lines, and a text of such lines only gives no entry at all.
C17_IgnorableLines ==
    fn_result # <<>> =>
        /\ Parsed.parsed = Parsed.cleaned
        /\ (\A i \in DOMAIN fn_args.lines : Ignorable(fn_args.lines[i])) =>
               Parsed.parsed = [latest |-> <<>>, current |-> <<>>]

\* A comment, a line for the platform and a line of three fields: the result
\* has the entry of the one line of four fields.
C17_Witness ==
    /\ fn_result # <<>>
    /\ fn_args.lines = <<L_comment, L_1_2, L_three>>
    /\ fn_args.os_tag = Linux
    /\ fn_args.current_version = V_1_2
    /\ Parsed.parsed = [latest |-> <<EntryOf(L_1_2)>>, current |-> <<EntryOf(L_1_2)>>]

\* C18: only lines whose platform field equals the platform tag, ignoring
\* case, give latest_entry and current_entry: the result is the same without
\* the lines for other platforms and with them moved, and an entry exists
\* exactly when some line is for the platform.
C18_PlatformFilter ==
    fn_result # <<>> =>
        LET entries == RelevantEntries(fn_args.lines, fn_args.os_tag)
        IN  /\ Parsed.parsed = Parsed.filtered
            /\ Parsed.parsed = Parsed.reordered
            /\ (Parsed.parsed.latest # <<>>) <=> (entries # <<>>)
            /\ Parsed.parsed.latest # <<>> =>
                   \E i \in DOMAIN entries : entries[i] = Parsed.parsed.latest[1]
            /\ Parsed.parsed.current # <<>> =>
                   \E i \in DOMAIN entries : entries[i] = Parsed.parsed.current[1]

\* A newer line and a deprecated line of the current version, both for
\* another platform, around a line for "Linux": only that line counts.
C18_Witness ==
    /\ fn_result # <<>>
    /\ fn_args.lines = <<L_win_1_9, L_1_2_0, L_win_1_2>>
    /\ fn_args.os_tag = Linux
    /\ fn_args.current_version = V_1_2
    /\ Parsed.parsed = [latest |-> <<EntryOf(L_1_2_0)>>,
                         current |-> <<EntryOf(L_1_2_0)>>]

\* C19: a start() or check_now() call on a client whose platform tag is
\* empty issues no fetch, gives "error" to the sink it supplies before it
\* returns, and leaves the stored ignore_skip flag and pending sink as they
\* were.
C19_EmptyPlatformTag ==
    [][( /\ _os_tag = <<>>
         /\ Len(calls') > Len(calls) )
        => /\ ~calls'[Len(calls')].dispatched
           /\ outstanding' = outstanding
           /\ _ignore_skip_for_this_request' = _ignore_skip_for_this_request
           /\ _result_callback_for_this_request' = _result_callback_for_this_request
           /\ sink_log' =
                  IF calls'[Len(calls')].has_callback
                  THEN Append(sink_log, [call |-> Len(calls'), status |-> "error",
                                         sync |-> TRUE])
                  ELSE sink_log
      ]_vars

\* check_now(ignore_skip = TRUE) with a sink on a client without platform
\* tag: the sink has "error", nothing is outstanding, nothing is stored.
C19_Witness ==
    /\ _os_tag = <<>>
    /\ calls # <<>>
    /\ calls[1].ignore_skip
    /\ calls[1].has_callback
    /\ ~calls[1].dispatched
    /\ sink_log # <<>>
    /\ sink_log[1] = [call |-> 1, status |-> "error", sync |-> TRUE]
    /\ outstanding = {}
    /\ ~_ignore_skip_for_this_request
    /\ _result_callback_for_this_request = <<>>

\* C20: a check resolved "deprecated" shows the mandatory dialog and then
\* asks the host to close, whichever button is pressed and also when the
\* dialog is dismissed without one; a check resolved "no_update",
\* "update_available" or "error" does not.
C20_MandatoryClosesHost ==
    [][last' # last =>
          /\ last'.status = "deprecated" =>
                 /\ last'.dialog = "mandatory"
                 /\ last'.close_parent
                 /\ parent_closed'
                 /\ \A user \in UserChoices :
                        _show_mandatory_update_dialog(
                            ParsedDescriptor[last'.text, _os_tag, _app_version].latest[1],
                            ParsedDescriptor[last'.text, _os_tag, _app_version].current,
                            user).close_parent
          /\ last'.status # "deprecated" =>
                 /\ ~last'.close_parent
                 /\ parent_closed' = parent_closed
      ]_vars

\* The first check of a deprecated version: the host is asked to close.
C20_Witness ==
    /\ Fetched
    /\ last.status = "deprecated"
    /\ last.dialog = "mandatory"
    /\ last.close_parent
    /\ parent_closed
    /\ Len(calls) = 1

\* C21: current_entry is absent exactly when no line for the platform has a
\* version that compares equal to current_version ("1.2" matches "1.2.0");
\* otherwise it is the entry of the last such line, so that with two lines of
\* the current version the flags of the last one decide.
C21_CurrentLastWins ==
    fn_result # <<>> =>
        LET entries == RelevantEntries(fn_args.lines, fn_args.os_tag)
            matching == {i \in DOMAIN entries :
                            _compare_versions(entries[i].version,
                                              fn_args.current_version) = 0}
        IN  /\ (Parsed.parsed.current = <<>>) <=> (matching = {})
            /\ matching # {} =>
                   \E i \in matching :
                       /\ \A j \in matching : j <= i
                       /\ Parsed.parsed.current = <<entries[i]>>

\* "1.2" and then "1.2.0" flagged deprecated, current version "1.2":
\* current_entry is the deprecated line.
C21_Witness ==
    /\ fn_result # <<>>
    /\ fn_args.lines = <<L_1_2, L_1_2_0>>
    /\ fn_args.os_tag = Linux
    /\ fn_args.current_version = V_1_2
    /\ Parsed.parsed.current = <<EntryOf(L_1_2_0)>>
    /\ CurrentIsDeprecated(Parsed.parsed.current)

\* C22: in a mandatory dialog the download URL is latest_entry's URL when
\* that is not empty and current_entry's URL otherwise, and the version
\* offered is latest_entry's version.
C22_MandatoryTarget ==
    (Fetched /\ last.dialog = "mandatory") =>
        /\ last.download_url =
               IF Strip(LastLatest.url) # <<>> THEN Strip(LastLatest.url)
               ELSE Strip(LastParsed.current[1].url)
        /\ last.dialog_version = Strip(LastLatest.version)

\* C23: when the dialog of an "update_available" or "deprecated" decision
\* raises, the pending sink is still given that status, once, and the pending
\* sink is cleared.
C23_PresentationFailureStillNotifies ==
    [][( /\ last' # last
         /\ last'.dialog = "failed"
         /\ _result_callback_for_this_request # <<>> )
        => /\ _result_callback_for_this_request' = <<>>
           /\ sink_log' =
                  Append(sink_log,
                         [call |-> _result_callback_for_this_request[1],
                          status |->
                              IF CurrentIsDeprecated(
                                     ParsedDescriptor[last'.text, _os_tag,
                                                      _app_version].current)
                              THEN "deprecated" ELSE "update_available",
                          sync |-> FALSE])
      ]_vars

\* C24: when a sink is invoked the client holds no pending sink and no
\* request is in flight any more; a check_now made then is dispatched and its
\* own sink is the pending one; and the sink of a request is what the reply
\* of that request is reported to.
C24_ClearedBeforeSink ==
    [][ /\ (last' # last /\ last'.notified # <<>>) =>
               /\ _result_callback_for_this_request' = <<>>
               /\ outstanding' = {}
        /\ ( /\ Len(calls') > Len(calls)
             /\ _os_tag # <<>>
             /\ _result_callback_for_this_request = <<>> ) =>
               /\ calls'[Len(calls')].dispatched
               /\ Len(calls') \in outstanding'
               /\ calls'[Len(calls')].has_callback =>
                      _result_callback_for_this_request' = <<Len(calls')>>
        /\ (last' # last /\ last'.notified # <<>>) =>
               last'.notified = <<last'.call>>
      ]_vars

\* C25: the stored skip version changes only in a check resolved
\* "update_available" whose optional dialog had the checkbox ticked, and then
\* to the version offered; a check resolved "error", "no_update" or
\* "deprecated", an optional dialog with the checkbox unticked, a call and a
\* stalled transport leave it as it was.
C25_SkipWrittenOnlyByCheckbox ==
    [][ /\ update_skip_version' # update_skip_version => last' # last
        /\ ( /\ last' # last
             /\ (update_skip_version' # update_skip_version
                    \/ last'.skip_write # <<>>) ) =>
               /\ last'.status = "update_available"
               /\ last'.dialog = "optional"
               /\ last'.skip_write =
                      <<Strip(ParsedDescriptor[last'.text, _os_tag, _app_version]
                                  .latest[1].version)>>
               /\ update_skip_version' = last'.skip_write
        /\ (last' # last /\ last'.dialog = "optional") =>
               \A user \in UserChoices :
                   ~user.checkbox =>
                       _show_optional_update_dialog(
                           ParsedDescriptor[last'.text, _os_tag, _app_version]
                               .latest[1], user).skip_write = <<>>
      ]_vars

\* Version 1.3 offered to 1.2 with the checkbox ticked: the stored skip
\* version, none before, is now 1.3.
C25_Witness ==
    /\ Fetched
    /\ last.status = "update_available"
    /\ last.dialog = "optional"
    /\ last.skip_before = <<>>
    /\ last.skip_write = <<V_1_3>>
    /\ update_skip_version = <<V_1_3>>

\* C26: every component of a parsed version is a non-negative integer: a
\* token that is not a plain non-negative number, a signed one like "-1"
\* included, counts as 0, so that compare("1.-1", "1.0") = 0.
C26_ComponentsNonNegative ==
    fn_result # <<>> =>
        /\ \A i \in DOMAIN Compared.a_parsed : Compared.a_parsed[i] >= 0
        /\ (fn_args.a = V_1_neg1 /\ fn_args.b = V_1_0) => Compared.ab = 0

\* The non-empty trimmed, lower-cased tokens of a flags field.
FlagSet(flags_str) ==
    {Lower(Strip(Split(flags_str, ",")[i])) : i \in DOMAIN Split(flags_str, ",")}
        \ {<<>>}

\* C27: the flags of an entry are the comma-separated tokens of the flags
\* field, trimmed and lower-cased, without the empty ones and with each flag
\* at most once; a current-version line flagged " Deprecated ", "DEPRECATED"
\* or ",deprecated," is deprecated, and a flags field "," or "" gives no
\* flags.
C27_FlagsNormalised ==
    fn_result # <<>> =>
        LET flags == fn_result[1].flags
        IN  /\ {flags[i] : i \in DOMAIN flags} = FlagSet(fn_args.flags_str)
            /\ \A i, j \in DOMAIN flags : i # j => flags[i] # flags[j]
            /\ fn_result[1].current_is_deprecated <=>
                   Deprecated \in FlagSet(fn_args.flags_str)
            /\ fn_args.flags_str \in {<<>>, <<",">>} => flags = <<>>

\* The status and the dialog of a reply for descriptor text as they follow
\* from the descriptor, the platform tag and the running version alone: the
\* handler's tests up to the ignore_skip test, and after it what the
\* ignore_skip branch gives.
OutcomeIgnoringSkip(text) ==
    LET parsed == ParsedDescriptor[text, _os_tag, _app_version]
        status == IF parsed.latest = <<>> THEN "error"
                  ELSE IF CurrentIsDeprecated(parsed.current) THEN "deprecated"
                  ELSE IF _compare_versions(parsed.latest[1].version,
                                            _app_version) <= 0
                  THEN "no_update"
                  ELSE "update_available"
    IN  [status |-> status,
         dialog |-> IF status = "deprecated" THEN "mandatory"
                    ELSE IF /\ status = "update_available"
                            /\ Strip(parsed.latest[1].version) # <<>>
                    THEN "optional"
                    ELSE "none"]

AsyncInvocations == {k \in DOMAIN sink_log : ~sink_log[k].sync}

RepliesDelivered ==
    {i \in DOMAIN calls : calls[i].dispatched /\ i \notin outstanding}

\* C29: under any interleaving of calls and replies, overlapping requests and
\* raising sinks included: every sink registration is invoked at most once;
\* the client holds at most one pending sink, the sink of a dispatched call
\* that has not been invoked yet; the asynchronous sink invocations are never
\* more than the replies delivered; and a handler whose sink raised has
\* finished all the same (its request is resolved and the invocation made).
C29_SinkAtMostOnce ==
    /\ \A i \in DOMAIN calls :
           /\ SinkCount(i) <= 1
           /\ SinkCount(i) = 1 => calls[i].has_callback
    /\ Len(_result_callback_for_this_request) <= 1
    /\ \A k \in DOMAIN _result_callback_for_this_request :
           \E i \in {_result_callback_for_this_request[k]} :
               /\ i \in DOMAIN calls
               /\ calls[i].dispatched
               /\ calls[i].has_callback
               /\ SinkCount(i) = 0
    /\ Cardinality(AsyncInvocations) <= Cardinality(RepliesDelivered)
    /\ last.sink_raised =>
           /\ last.notified # <<>>
           /\ last.call \in RepliesDelivered
           /\ \E k \in AsyncInvocations :
                  /\ sink_log[k].call = last.notified[1]
                  /\ sink_log[k].status = last.status

\* Two overlapping calls, each with a sink: the first reply invoked the
\* pending sink (the second call's), which raised inside the handler; the
\* other request is still outstanding and no sink is pending for it.
C29_Witness ==
    /\ last.sink_raised
    /\ Len(calls) = 2
    /\ calls[1].dispatched /\ calls[1].has_callback
    /\ calls[2].dispatched /\ calls[2].has_callback /\ calls[2].busy
    /\ Cardinality(outstanding) = 1
    /\ Cardinality(AsyncInvocations) = 1
    /\ Cardinality(RepliesDelivered) = 1
    /\ SinkCount(2) = 1
    /\ SinkCount(1) = 0
    /\ _result_callback_for_this_request = <<>>

====
